---- MODULE Spec2Model ----
(***************************************************************************)
(* thread_pool and task_pool of zbase (src/unnamed/part_000).              *)
(*                                                                         *)
(* One thread_pool or task_pool object, its worker threads, and a bounded  *)
(* number of client calls that each submit one task.  The header holds the *)
(* submission side (enqueue, wait_to_enqueue, poll.., wait..); the worker  *)
(* loop, the destructor and reset() are defined out of line and are        *)
(* modelled from the specification text (sections 4.1, 4.2).               *)
(***************************************************************************)
EXTENDS Integers, Sequences, FiniteSets, TLC

\* ------------------------------------------------------------------ bounds
\* Largest worker count handed to the constructor (0 is coerced to 1).
MaxN == 2
\* Number of client calls; call c submits task c.
NCalls == 2
\* Number of calls of task_pool::reset.
MaxResets == 1

Calls == 1..NCalls
\* The submissions made from inside a running task (as many as client calls),
\* and all submissions.
NestedCalls == (NCalls + 1)..(2 * NCalls)
AllCalls == Calls \cup NestedCalls
Max(a, b) == IF a >= b THEN a ELSE b

VARIABLES
    kind,         \* "thread_pool" or "task_pool": the class of the object
    n,            \* the constructor's worker-count argument
    max_tasks,    \* task_pool::max_tasks
    workers,      \* thread_pool::workers (the set of worker threads)
    tasks,        \* thread_pool::tasks, front first
    queue_mutex,  \* owner of thread_pool::queue_mutex
    stopped,      \* thread_pool::stopped
    wpc,          \* position of each worker in its loop
    cur,          \* the task a worker has popped and is running (0: none)
    cpc,          \* position of each client call
    op,           \* the member function a call is inside ("none": outside)
    woken,        \* how the last wait of a call ended: "no" (none so far),
                  \* "wake"/"timeout" (released, or its deadline expired),
                  \* and once it has returned: "pred" (its predicate was true),
                  \* "timeout" (on expiry, the predicate false), "wake" (a
                  \* caller's own waiter)
    handle,       \* shared state of each task's future
    execCount,    \* number of times each task's callable was invoked
    writes,       \* number of times each task's shared state was written
    counter,      \* the counter the callables increment
    pushed,       \* tasks in the order they were pushed
    popped,       \* tasks in the order they were popped
    dpc,          \* position of the destructor
    atStop,       \* the queue as it was when the stop flag was set
    rpc,          \* position of task_pool::reset ("idle": not inside it)
    resets,       \* number of calls of reset that have returned
    atReset,      \* the tasks queued or being run when reset was last called
    gated,        \* the task whose callable waits for an external gate that
                  \* is closed (0: no task does)
    nestedOn      \* the worker whose task made the last nested submission
                  \* (0: none was made)

vars == <<kind, n, max_tasks, workers, tasks, queue_mutex, stopped, wpc, cur,
          cpc, op, woken, handle, execCount, writes, counter,
          pushed, popped, dpc, atStop, rpc, resets, atReset,
          gated, nestedOn>>

\* What the pool's client does besides submitting.
clientVars == <<rpc, resets, atReset, gated, nestedOn>>
poolVars == <<kind, n, max_tasks, workers>>
workerVars == <<wpc, cur>>
callVars == <<cpc, op, woken>>
taskVars == <<handle, execCount, writes, counter>>

Free == <<"free", 0>>
Worker(w) == <<"worker", w>>
\* Mutant of Caller: the unique_lock does not take the mutex.
CallerNotLocked(c) == <<"free", 0>>

Caller(c) == <<"call", c>>

ThreadPoolOps == {"enqueue", "wait_to_enqueue"}
\* The model has no clock, so a deadline given as a duration and one given as a
\* time point are the same: "poll_for" stands for poll_for and poll_until,
\* "wait_for" for wait_for and wait_until.
TaskPoolOps == {"poll", "poll_for", "wait", "wait_for", "wait_to_enqueue"}

PollOps == {"poll", "poll_for"}
WaitOps == {"wait", "wait_for"}
TimedOps == {"poll_for", "wait_for"}

\* thread_pool::size_unlocked
size_unlocked == Len(tasks)

\* Mutant of can_enqueue_unlocked: the comparison is off by one.
can_enqueue_off_by_one == size_unlocked <= max_tasks

\* task_pool::can_enqueue_unlocked
can_enqueue_unlocked == size_unlocked < max_tasks

\* What the poller a call handed to poll may return: the wait family passes
\* []{ return true; }; a caller's own poller may return either value each time
\* it is asked.
poller(c) == IF op[c] \in WaitOps THEN {TRUE} ELSE BOOLEAN

\* ------------------------------------------------------------------- Init
\* Mutant of MaxTasksOf: the argument is not coerced to at least 1.
MaxTasksUncoerced(k) == k

\* task_pool::task_pool: max_tasks(std::max<size_t>(n, 1))
MaxTasksOf(k) == Max(k, 1)

\* The number of worker threads the constructor starts.
WorkerCount(k) == Max(k, 1)

\* thread_pool::thread_pool / task_pool::task_pool
Init ==
    /\ kind \in {"thread_pool", "task_pool"}
    /\ n \in 0..MaxN
    /\ max_tasks = IF kind = "task_pool" THEN MaxTasksOf(n) ELSE 0
    /\ workers = 1..WorkerCount(n)
    /\ tasks = <<>>
    /\ queue_mutex = Free
    /\ stopped = FALSE
    /\ wpc = [w \in 1..WorkerCount(n) |-> "start"]
    /\ cur = [w \in 1..WorkerCount(n) |-> 0]
    /\ cpc = [c \in AllCalls |-> "idle"]
    /\ op = [c \in AllCalls |-> "none"]
    /\ woken = [c \in AllCalls |-> "no"]
    /\ handle = [c \in AllCalls |-> "pending"]
    /\ execCount = [c \in AllCalls |-> 0]
    /\ writes = [c \in AllCalls |-> 0]
    /\ counter = 0
    /\ pushed = <<>>
    /\ popped = <<>>
    /\ dpc = "alive"
    /\ atStop = <<>>
    /\ rpc = "idle"
    /\ resets = 0
    /\ atReset = {}
    /\ gated = 0
    /\ nestedOn = 0

\* ----------------------------------------------------------- client calls
\* Entry of a submission member function: pack_shared_task and get_future
\* (thread_pool::wait_to_enqueue, before the lock is taken).  task_pool
\* inherits thread_pool privately, so its clients reach only the poll and wait
\* families and task_pool::wait_to_enqueue.  Calls are numbered in the order
\* they are entered (tasks are interchangeable, so nothing is lost).
Begin(c, o) ==
    /\ dpc = "alive"
    /\ rpc = "idle"
    /\ cpc[c] = "idle"
    /\ \A b \in 1..(c - 1) : cpc[b] # "idle"
    /\ o \in (IF kind = "task_pool" THEN TaskPoolOps ELSE ThreadPoolOps)
    /\ cpc' = [cpc EXCEPT ![c] = "lock"]
    /\ op' = [op EXCEPT ![c] = o]
    /\ UNCHANGED <<poolVars, clientVars, tasks, queue_mutex, stopped,
                   workerVars, woken, taskVars, pushed, popped, dpc, atStop>>

\* Where a call stands once it holds the lock: every task_pool submission goes
\* through task_pool::wait_to_enqueue and so starts at its while loop;
\* thread_pool::enqueue passes an empty waiter; thread_pool::wait_to_enqueue
\* invokes the caller's waiter.
AfterLock(c) ==
    IF kind = "task_pool" THEN "loop"
    ELSE IF op[c] = "enqueue" THEN "push" ELSE "policy"

\* Where a call stands when its waiter returns (with the lock held).
AfterPolicy(c) == IF kind = "task_pool" THEN "loop" ELSE "push"

\* std::unique_lock<std::mutex> lck(queue_mutex) in thread_pool::wait_to_enqueue
CallLock(c) ==
    /\ cpc[c] = "lock"
    /\ queue_mutex = Free
    /\ queue_mutex' = Caller(c)
    /\ cpc' = [cpc EXCEPT ![c] = AfterLock(c)]
    /\ UNCHANGED <<poolVars, clientVars, tasks, stopped, workerVars, op, woken,
                   taskVars, pushed, popped, dpc, atStop>>

\* Mutant of LoopTarget: the waiter's return goes straight to the push.
LoopTargetNoCheck == "push"

\* The condition of the loop of task_pool::wait_to_enqueue decides whether the
\* waiter is invoked at all.
LoopTarget == IF can_enqueue_unlocked THEN "push" ELSE "policy"

\* while(!can_enqueue_unlocked()) wait(lck);  in task_pool::wait_to_enqueue
CallLoop(c) ==
    /\ cpc[c] = "loop"
    /\ queue_mutex = Caller(c)
    /\ cpc' = [cpc EXCEPT ![c] = LoopTarget]
    /\ UNCHANGED <<poolVars, clientVars, tasks, queue_mutex, stopped,
                   workerVars, op, woken, taskVars, pushed, popped, dpc,
                   atStop>>

\* The predicate the poll family hands to enqueue_condition.wait*.
PollPredicate(p) == p /\ can_enqueue_unlocked

\* The waiter of the poll and wait families:
\* enqueue_condition.wait / wait_for / wait_until(lck, ..., predicate) on entry:
\* the predicate is evaluated first and the thread blocks when it is false.
CallPollWait(c) ==
    /\ cpc[c] = "policy"
    /\ op[c] \in PollOps \cup WaitOps
    /\ queue_mutex = Caller(c)
    /\ \E p \in poller(c) :
         IF PollPredicate(p)
           THEN /\ cpc' = [cpc EXCEPT ![c] = AfterPolicy(c)]
                /\ woken' = [woken EXCEPT ![c] = "pred"]
                /\ UNCHANGED queue_mutex
           ELSE /\ cpc' = [cpc EXCEPT ![c] = "blocked"]
                /\ woken' = [woken EXCEPT ![c] = "no"]
                /\ queue_mutex' = Free
    /\ UNCHANGED <<poolVars, clientVars, tasks, stopped, workerVars, op,
                   taskVars, pushed, popped, dpc, atStop>>

\* A caller-supplied waiter handed to wait_to_enqueue: it returns with the lock
\* held, either at once or after it released the lock and waited.
CallCustomWait(c) ==
    /\ cpc[c] = "policy"
    /\ op[c] = "wait_to_enqueue"
    /\ queue_mutex = Caller(c)
    /\ woken' = [woken EXCEPT ![c] = "no"]
    /\ \/ /\ cpc' = [cpc EXCEPT ![c] = AfterPolicy(c)]
          /\ UNCHANGED queue_mutex
       \/ /\ cpc' = [cpc EXCEPT ![c] = "blocked"]
          /\ queue_mutex' = Free
    /\ UNCHANGED <<poolVars, clientVars, tasks, stopped, workerVars, op,
                   taskVars, pushed, popped, dpc, atStop>>

\* A blocked call is released: a spurious wake-up of the condition variable, or
\* the event the caller's own waiter waits for.  (No member of task_pool or
\* thread_pool in the header notifies enqueue_condition.)
CallWake(c) ==
    /\ cpc[c] = "blocked"
    /\ cpc' = [cpc EXCEPT ![c] = "relock"]
    /\ woken' = [woken EXCEPT ![c] = "wake"]
    /\ UNCHANGED <<poolVars, clientVars, tasks, queue_mutex, stopped,
                   workerVars, op, taskVars, pushed, popped, dpc, atStop>>

\* The deadline of wait_for / wait_until expires.
CallTimeout(c) ==
    /\ cpc[c] = "blocked"
    /\ op[c] \in TimedOps
    /\ cpc' = [cpc EXCEPT ![c] = "relock"]
    /\ woken' = [woken EXCEPT ![c] = "timeout"]
    /\ UNCHANGED <<poolVars, clientVars, tasks, queue_mutex, stopped,
                   workerVars, op, taskVars, pushed, popped, dpc, atStop>>

\* Whether a released waiter returns to its caller once it has the lock again:
\* wait(lck, pred) is while(!pred()) wait(lck); the timed forms return pred()
\* when the deadline has expired, whatever its value; a caller's own waiter
\* returns.
WaitReturns(c, p) ==
    \/ op[c] = "wait_to_enqueue"
    \/ woken[c] = "timeout"
    \/ PollPredicate(p)

\* What the wait that returns has seen.
WaitResult(c, p) ==
    IF op[c] = "wait_to_enqueue" THEN "wake"
    ELSE IF PollPredicate(p) THEN "pred" ELSE "timeout"

\* The condition variable reacquires the lock and the waiter goes on.
CallRelock(c) ==
    /\ cpc[c] = "relock"
    /\ queue_mutex = Free
    /\ \E p \in poller(c) :
         IF WaitReturns(c, p)
           THEN /\ cpc' = [cpc EXCEPT ![c] = AfterPolicy(c)]
                /\ queue_mutex' = Caller(c)
                /\ woken' = [woken EXCEPT ![c] = WaitResult(c, p)]
           ELSE /\ cpc' = [cpc EXCEPT ![c] = "blocked"]
                /\ woken' = [woken EXCEPT ![c] = "no"]
                /\ UNCHANGED queue_mutex
    /\ UNCHANGED <<poolVars, clientVars, tasks, stopped, workerVars, op,
                   taskVars, pushed, popped, dpc, atStop>>

\* Mutant of PushTask: the closure is pushed twice.
PushTaskTwice(q, c) == Append(Append(q, c), c)

\* Mutant of PushTask: the closure is put at the front of the queue.
PushTaskFront(q, c) == <<c>> \o q

\* tasks.push([task]{ (*task)(); }) in thread_pool::wait_to_enqueue
PushTask(q, c) == Append(q, c)

\* assert(lck.owns_lock()); tasks.push(...); the lock is released at the end of
\* the block.
CallPush(c) ==
    /\ cpc[c] = "push"
    /\ queue_mutex = Caller(c)
    /\ tasks' = PushTask(tasks, c)
    /\ pushed' = Append(pushed, c)
    /\ queue_mutex' = Free
    /\ cpc' = [cpc EXCEPT ![c] = "notify"]
    /\ woken' = [woken EXCEPT ![c] = "no"]
    /\ UNCHANGED <<poolVars, clientVars, stopped, workerVars, op, taskVars,
                   popped, dpc, atStop>>

\* The workers blocked in condition.wait.
Waiting == {w \in workers : wpc[w] = "wait"}

\* Mutant of NotifyOneTargets: the notification is left out.
NotifyNobody == {}

\* The threads condition.notify_one() may release: any one of those blocked on
\* the condition variable.
NotifyOneTargets == Waiting

\* condition.notify_one(); return std::move(res);
CallNotify(c) ==
    /\ cpc[c] = "notify"
    /\ cpc' = [cpc EXCEPT ![c] = "done"]
    /\ op' = [op EXCEPT ![c] = "none"]
    /\ IF NotifyOneTargets = {}
         THEN UNCHANGED wpc
         ELSE \E w \in NotifyOneTargets : wpc' = [wpc EXCEPT ![w] = "lock"]
    /\ UNCHANGED <<poolVars, clientVars, tasks, queue_mutex, stopped, cur,
                   woken, taskVars, pushed, popped, dpc, atStop>>

\* ---------------------------------------------------------------- workers
\* The worker thread starts and invokes on_enter.  Workers are numbered in the
\* order they start running (they are interchangeable).
WorkerEnter(w) ==
    /\ w \in workers
    /\ wpc[w] = "start"
    /\ \A v \in 1..(w - 1) : wpc[v] # "start"
    /\ wpc' = [wpc EXCEPT ![w] = "lock"]
    /\ UNCHANGED <<poolVars, clientVars, tasks, queue_mutex, stopped, cur,
                   callVars, taskVars, pushed, popped, dpc, atStop>>

\* The worker acquires the queue lock at the head of its loop (or again, on
\* leaving the condition variable).
WorkerLock(w) ==
    /\ w \in workers
    /\ wpc[w] = "lock"
    /\ queue_mutex = Free
    /\ queue_mutex' = Worker(w)
    /\ wpc' = [wpc EXCEPT ![w] = "check"]
    /\ UNCHANGED <<poolVars, clientVars, tasks, stopped, cur, callVars,
                   taskVars, pushed, popped, dpc, atStop>>

\* Mutant of WorkerChoice: the stop flag is looked at before the queue.
WorkerChoiceStopFirst ==
    IF stopped THEN "exit"
    ELSE IF tasks # <<>> THEN "run" ELSE "wait"

\* Mutant of WorkerChoice: an idle worker waits for the stop flag even when the
\* queue holds a task.
WorkerChoiceWaitUnlessStopped ==
    IF ~stopped THEN "wait"
    ELSE IF tasks # <<>> THEN "run" ELSE "exit"

\* What a worker holding the lock does next: wait until the queue is non-empty
\* or the stop flag is set; terminate when the flag is set and the queue is
\* empty; otherwise pop.
WorkerChoice ==
    IF tasks # <<>> THEN "run"
    ELSE IF stopped THEN "exit" ELSE "wait"

\* Mutant of MutexAfterCheck: the lock is kept while the popped task runs.
MutexKeptWhileRunning(w) ==
    IF WorkerChoice = "run" THEN <<"worker", w>> ELSE Free

\* The owner of the lock when the worker has decided: the lock is released by
\* condition.wait, at the end of the loop, and before the popped task is run.
MutexAfterCheck(w) == Free

\* The worker, under the lock: blocks on the condition variable (releasing the
\* lock), or leaves its loop, or pops the front task and releases the lock.
WorkerCheck(w) ==
    /\ w \in workers
    /\ wpc[w] = "check"
    /\ queue_mutex = Worker(w)
    /\ queue_mutex' = MutexAfterCheck(w)
    /\ wpc' = [wpc EXCEPT ![w] = WorkerChoice]
    /\ IF WorkerChoice = "run"
         THEN /\ cur' = [cur EXCEPT ![w] = Head(tasks)]
              /\ tasks' = Tail(tasks)
              /\ popped' = Append(popped, Head(tasks))
         ELSE UNCHANGED <<cur, tasks, popped>>
    /\ UNCHANGED <<poolVars, clientVars, stopped, callVars, taskVars, pushed,
                   dpc, atStop>>

\* Whether the task worker w is running is inside a submission it made into
\* the pool: the callable cannot return before that call has.
InNested(w) ==
    /\ nestedOn = w
    /\ \E c \in NestedCalls : cpc[c] \notin {"idle", "done"}

\* The outcome a std::packaged_task stores in its shared state when invoked:
\* the returned value, or the exception the callable threw.
StoredOutcome(outcome) == outcome

\* Mutant of AfterTask: a failure of the callable escapes the closure and ends
\* the worker thread.
AfterTaskEscapes(outcome) == IF outcome = "exception" THEN "dead" ELSE "lock"

\* Where the worker stands after  [task]{ (*task)(); }  returns: the
\* packaged_task has caught whatever the callable threw, so the closure returns
\* normally and the worker goes round its loop.
AfterTask(outcome) == "lock"

\* The worker runs the task it popped, outside the lock.  The callable either
\* increments the counter and returns, or raises a failure.
WorkerRun(w) ==
    /\ w \in workers
    /\ wpc[w] = "run"
    /\ cur[w] # gated
    /\ ~InNested(w)
    /\ \E outcome \in {"value", "exception"} :
         /\ handle' = [handle EXCEPT ![cur[w]] = StoredOutcome(outcome)]
         /\ counter' = IF outcome = "value" THEN counter + 1 ELSE counter
         /\ wpc' = [wpc EXCEPT ![w] = AfterTask(outcome)]
    /\ execCount' = [execCount EXCEPT ![cur[w]] = @ + 1]
    /\ writes' = [writes EXCEPT ![cur[w]] = @ + 1]
    /\ cur' = [cur EXCEPT ![w] = 0]
    /\ UNCHANGED <<poolVars, clientVars, tasks, queue_mutex, stopped, callVars,
                   pushed, popped, dpc, atStop>>

\* The worker invokes on_exit and its thread ends.
WorkerExit(w) ==
    /\ w \in workers
    /\ wpc[w] = "exit"
    /\ wpc' = [wpc EXCEPT ![w] = "done"]
    /\ UNCHANGED <<poolVars, clientVars, tasks, queue_mutex, stopped, cur,
                   callVars, taskVars, pushed, popped, dpc, atStop>>

\* A spurious wake-up of condition.wait.
WorkerSpurious(w) ==
    /\ w \in workers
    /\ wpc[w] = "wait"
    /\ wpc' = [wpc EXCEPT ![w] = "lock"]
    /\ UNCHANGED <<poolVars, clientVars, tasks, queue_mutex, stopped, cur,
                   callVars, taskVars, pushed, popped, dpc, atStop>>

\* ------------------------------------------------------------- destructor
\* No client call is inside a member function.
Quiescent == \A c \in AllCalls : cpc[c] \in {"idle", "done"}

\* ~thread_pool: the stop flag is set under the lock.
DtorStop ==
    /\ dpc = "alive"
    /\ Quiescent
    /\ queue_mutex = Free
    /\ stopped' = TRUE
    /\ atStop' = tasks
    /\ dpc' = "stopping"
    /\ UNCHANGED <<poolVars, clientVars, tasks, queue_mutex, workerVars,
                   callVars, taskVars, pushed, popped>>

\* ~thread_pool: condition.notify_all()
DtorNotify ==
    /\ dpc = "stopping"
    /\ wpc' = [w \in workers |-> IF wpc[w] = "wait" THEN "lock" ELSE wpc[w]]
    /\ dpc' = "joining"
    /\ UNCHANGED <<poolVars, clientVars, tasks, queue_mutex, stopped, cur,
                   callVars, taskVars, pushed, popped, atStop>>

\* ~thread_pool: every worker has been joined; the destructor returns.
DtorJoin ==
    /\ dpc = "joining"
    /\ \A w \in workers : wpc[w] = "done"
    /\ dpc' = "destroyed"
    /\ UNCHANGED <<poolVars, clientVars, tasks, queue_mutex, stopped,
                   workerVars, callVars, taskVars, pushed, popped, atStop>>

\* ------------------------------------------------------------------ reset
\* The tasks admitted and not completed: in the queue or popped by a worker.
Unfinished ==
    {tasks[i] : i \in 1..Len(tasks)} \cup ({cur[w] : w \in workers} \ {0})

\* task_pool::reset is called: it destroys the thread_pool base object, whose
\* destructor (DtorStop, DtorNotify, DtorJoin) lets the workers drain the queue
\* and joins them.  No other member function runs during a reset.
ResetBegin ==
    /\ kind = "task_pool"
    /\ dpc = "alive"
    /\ rpc = "idle"
    /\ resets < MaxResets
    /\ Quiescent
    /\ rpc' = "destroy"
    /\ atReset' = Unfinished
    /\ UNCHANGED <<poolVars, tasks, queue_mutex, stopped, workerVars, callVars,
                   taskVars, pushed, popped, dpc, atStop, resets, gated,
                   nestedOn>>

\* Mutant of StoppedAtConstruction: the flag of the destroyed pool is kept.
StoppedKept == stopped

\* bool stopped = {};  the member initialiser of a new thread_pool
StoppedAtConstruction == FALSE

\* The worker count reset hands to the constructor: the one originally
\* supplied.
ResetWorkerCount == WorkerCount(n)

\* task_pool::reset, after the destructor has returned: a new thread_pool is
\* constructed in place with the original worker count; reset returns.
ResetConstruct ==
    /\ rpc = "destroy"
    /\ dpc = "destroyed"
    /\ workers' = 1..ResetWorkerCount
    /\ wpc' = [w \in 1..ResetWorkerCount |-> "start"]
    /\ cur' = [w \in 1..ResetWorkerCount |-> 0]
    /\ tasks' = <<>>
    /\ queue_mutex' = Free
    /\ stopped' = StoppedAtConstruction
    /\ dpc' = "alive"
    /\ rpc' = "idle"
    /\ resets' = resets + 1
    /\ UNCHANGED <<kind, n, max_tasks, callVars, taskVars, pushed, popped,
                   atStop, atReset, gated, nestedOn>>

\* ------------------------------------------------------ tasks that block
\* The client calls wait with a callable that waits for an external gate, which
\* is closed.
SubmitGated(c) ==
    /\ kind = "task_pool"
    /\ gated = 0
    /\ dpc = "alive"
    /\ rpc = "idle"
    /\ cpc[c] = "idle"
    /\ \A b \in 1..(c - 1) : cpc[b] # "idle"
    /\ cpc' = [cpc EXCEPT ![c] = "lock"]
    /\ op' = [op EXCEPT ![c] = "wait"]
    /\ gated' = c
    /\ UNCHANGED <<poolVars, tasks, queue_mutex, stopped, workerVars, woken,
                   taskVars, pushed, popped, dpc, atStop, rpc, resets,
                   atReset, nestedOn>>

\* The gate is opened.
ReleaseGate ==
    /\ gated # 0
    /\ gated' = 0
    /\ UNCHANGED <<poolVars, tasks, queue_mutex, stopped, workerVars, callVars,
                   taskVars, pushed, popped, dpc, atStop, rpc, resets,
                   atReset, nestedOn>>

\* ----------------------------------------------------- nested submission
\* The callable of the task worker w is running calls wait or poll on the pool
\* it runs on.  One such call is made at a time, numbered in the order made.
BeginNested(c, w, o) ==
    /\ kind = "task_pool"
    /\ c \in NestedCalls
    /\ o \in {"wait", "poll"}
    /\ w \in workers
    /\ wpc[w] = "run"
    /\ cur[w] # gated
    /\ \A b \in NestedCalls : cpc[b] \in {"idle", "done"}
    /\ cpc[c] = "idle"
    /\ \A b \in (NCalls + 1)..(c - 1) : cpc[b] # "idle"
    /\ cpc' = [cpc EXCEPT ![c] = "lock"]
    /\ op' = [op EXCEPT ![c] = o]
    /\ nestedOn' = w
    /\ UNCHANGED <<poolVars, tasks, queue_mutex, stopped, workerVars, woken,
                   taskVars, pushed, popped, dpc, atStop, rpc, resets,
                   atReset, gated>>

\* ---------------------------------------------------------- specification
Next ==
    \/ \E c \in Calls, o \in TaskPoolOps \cup ThreadPoolOps : Begin(c, o)
    \/ \E c \in Calls : CallLock(c)
    \/ \E c \in Calls : CallLoop(c)
    \/ \E c \in Calls : CallPollWait(c)
    \/ \E c \in Calls : CallCustomWait(c)
    \/ \E c \in Calls : CallWake(c)
    \/ \E c \in Calls : CallTimeout(c)
    \/ \E c \in Calls : CallRelock(c)
    \/ \E c \in Calls : CallPush(c)
    \/ \E c \in Calls : CallNotify(c)
    \/ \E w \in workers : WorkerEnter(w)
    \/ \E w \in workers : WorkerLock(w)
    \/ \E w \in workers : WorkerCheck(w)
    \/ \E w \in workers : WorkerRun(w)
    \/ \E w \in workers : WorkerExit(w)
    \/ \E w \in workers : WorkerSpurious(w)
    \/ DtorStop
    \/ DtorNotify
    \/ DtorJoin

Spec == Init /\ [][Next]_vars

\* The workers that have popped a task and not yet finished it.
Running == {w \in workers : wpc[w] = "run"}

\* Whether task c is in the queue.
Queued(c) == \E i \in 1..Len(tasks) : tasks[i] = c

\* A pool whose client also calls reset.
NextReset ==
    \/ Next
    \/ ResetBegin
    \/ ResetConstruct

SpecReset == Init /\ [][NextReset]_vars

\* A task_pool.
InitTaskPool == Init /\ kind = "task_pool"

\* A task_pool whose clients call wait and poll, also from inside its tasks.
NextNested ==
    \/ \E c \in Calls, o \in {"wait", "poll"} : Begin(c, o)
    \/ \E c \in NestedCalls, w \in workers, o \in {"wait", "poll"} :
          BeginNested(c, w, o)
    \/ \E c \in AllCalls : CallLock(c)
    \/ \E c \in AllCalls : CallLoop(c)
    \/ \E c \in AllCalls : CallPollWait(c)
    \/ \E c \in AllCalls : CallWake(c)
    \/ \E c \in AllCalls : CallRelock(c)
    \/ \E c \in AllCalls : CallPush(c)
    \/ \E c \in AllCalls : CallNotify(c)
    \/ \E w \in workers : WorkerEnter(w)
    \/ \E w \in workers : WorkerLock(w)
    \/ \E w \in workers : WorkerCheck(w)
    \/ \E w \in workers : WorkerRun(w)
    \/ \E w \in workers : WorkerSpurious(w)

SpecNested == InitTaskPool /\ [][NextNested]_vars

\* ------------------------------------------- specifications with fairness
\* A thread_pool that is not destroyed.
InitThreadPool == Init /\ kind = "thread_pool"

NextThreadPool ==
    \/ \E c \in Calls, o \in ThreadPoolOps : Begin(c, o)
    \/ \E c \in Calls : CallLock(c)
    \/ \E c \in Calls : CallCustomWait(c)
    \/ \E c \in Calls : CallWake(c)
    \/ \E c \in Calls : CallRelock(c)
    \/ \E c \in Calls : CallPush(c)
    \/ \E c \in Calls : CallNotify(c)
    \/ \E w \in workers : WorkerEnter(w)
    \/ \E w \in workers : WorkerLock(w)
    \/ \E w \in workers : WorkerCheck(w)
    \/ \E w \in workers : WorkerRun(w)
    \/ \E w \in workers : WorkerSpurious(w)

\* The steps of a call that need no lock acquisition, and those that acquire
\* the lock; a call is at one place at a time, so at most one is enabled.
CallStep(c) ==
    \/ CallLoop(c)
    \/ CallPollWait(c)
    \/ CallCustomWait(c)
    \/ CallPush(c)
    \/ CallNotify(c)

CallAcquire(c) == CallLock(c) \/ CallRelock(c)

\* The same for a worker.
WorkerStep(w) == WorkerEnter(w) \/ WorkerCheck(w) \/ WorkerRun(w)

\* Every thread that can take a step takes one (a task body and a waiter that
\* holds the lock terminate), and a thread that tries to lock the mutex gets it
\* if it is free again and again.  Nothing is assumed of spurious wake-ups, of
\* the events a caller's own waiter waits for, or of new calls being made.
CallFairness ==
    \A c \in Calls : WF_vars(CallStep(c)) /\ SF_vars(CallAcquire(c))

WorkerFairness ==
    \A w \in 1..WorkerCount(MaxN) :
        WF_vars(WorkerStep(w)) /\ SF_vars(WorkerLock(w))

FairThreadPool ==
    InitThreadPool /\ [][NextThreadPool]_vars /\ CallFairness /\ WorkerFairness

\* A task_pool that is not destroyed and whose clients call wait only.
NextWait ==
    \/ \E c \in Calls : Begin(c, "wait")
    \/ \E c \in Calls : CallLock(c)
    \/ \E c \in Calls : CallLoop(c)
    \/ \E c \in Calls : CallPollWait(c)
    \/ \E c \in Calls : CallWake(c)
    \/ \E c \in Calls : CallRelock(c)
    \/ \E c \in Calls : CallPush(c)
    \/ \E c \in Calls : CallNotify(c)
    \/ \E w \in workers : WorkerEnter(w)
    \/ \E w \in workers : WorkerLock(w)
    \/ \E w \in workers : WorkerCheck(w)
    \/ \E w \in workers : WorkerRun(w)
    \/ \E w \in workers : WorkerSpurious(w)

FairWait ==
    InitTaskPool /\ [][NextWait]_vars /\ CallFairness /\ WorkerFairness

\* A task_pool whose clients call wait and reset.
NextWaitReset ==
    \/ NextWait
    \/ \E w \in workers : WorkerExit(w)
    \/ DtorStop
    \/ DtorNotify
    \/ DtorJoin
    \/ ResetBegin
    \/ ResetConstruct

\* The steps of reset once it has been called: the destructor's lock
\* acquisition, and the steps that wait for no lock.
ResetAcquire == rpc = "destroy" /\ DtorStop

ResetStep == DtorNotify \/ DtorJoin \/ ResetConstruct

\* A reset that has been called goes on, and a worker that has left its loop
\* ends.  Nothing is assumed of reset or the destructor being called.
ResetFairness ==
    /\ SF_vars(ResetAcquire)
    /\ WF_vars(ResetStep)
    /\ \A w \in 1..WorkerCount(MaxN) : WF_vars(WorkerExit(w))

FairReset ==
    /\ InitTaskPool /\ [][NextWaitReset]_vars
    /\ CallFairness /\ WorkerFairness /\ ResetFairness

\* Scenario B: a task_pool with max_tasks = 1 and one worker; the client
\* submits task 1, which waits for the gate, and when that call has returned
\* calls wait to submit task 2; the gate is opened at some time after that.
InitScenarioB == InitTaskPool /\ max_tasks = 1

NextScenarioB ==
    \/ SubmitGated(1)
    \/ cpc[1] = "done" /\ Begin(2, "wait")
    \/ cpc[2] # "idle" /\ ReleaseGate
    \/ \E c \in Calls : CallLock(c)
    \/ \E c \in Calls : CallLoop(c)
    \/ \E c \in Calls : CallPollWait(c)
    \/ \E c \in Calls : CallWake(c)
    \/ \E c \in Calls : CallRelock(c)
    \/ \E c \in Calls : CallPush(c)
    \/ \E c \in Calls : CallNotify(c)
    \/ \E w \in workers : WorkerEnter(w)
    \/ \E w \in workers : WorkerLock(w)
    \/ \E w \in workers : WorkerCheck(w)
    \/ \E w \in workers : WorkerRun(w)
    \/ \E w \in workers : WorkerSpurious(w)

FairScenarioB ==
    InitScenarioB /\ [][NextScenarioB]_vars /\ CallFairness /\ WorkerFairness

\* ------------------------------------------------------------------ claims
\* C1: every task admitted to the queue is executed at most once and by at most
\* one worker, and its handle is written at most once; the counter equals the
\* number of tasks that returned, so once all NCalls handles have resolved with
\* a value the counter equals NCalls.
C1_ExecutedAtMostOnce ==
    /\ \A c \in Calls : execCount[c] <= 1 /\ writes[c] <= 1
    /\ \A c \in Calls : Cardinality({w \in workers : cur[w] = c}) <= 1
    /\ \A c \in Calls :
         (\E w \in workers : cur[w] = c) => execCount[c] = 0 /\ ~Queued(c)
    /\ counter = Cardinality({c \in Calls : handle[c] = "value"})
    /\ (\A c \in Calls : handle[c] = "value") => counter = NCalls

\* C1 witness: two workers have run all the tasks, every handle holds a value.
C1_Witness ==
    /\ Cardinality(workers) = 2
    /\ \A c \in Calls : handle[c] = "value" /\ execCount[c] = 1
    /\ counter = NCalls

\* C2: in a thread_pool that is not destroyed, every task submitted through
\* enqueue, and every task in the queue, is eventually executed and its handle
\* resolved.
C2_EnqueuedResolved ==
    \A c \in Calls :
        /\ (op[c] = "enqueue") ~> (handle[c] # "pending" /\ execCount[c] = 1)
        /\ Queued(c) ~> (handle[c] # "pending" /\ ~Queued(c))

\* C2 witness: every call was an enqueue and every handle has resolved.
C2_Witness ==
    /\ \A c \in Calls : cpc[c] = "done" /\ handle[c] # "pending"
    /\ \A i \in 1..Len(pushed) : pushed[i] \in Calls
    /\ Len(pushed) = NCalls
    /\ kind = "thread_pool"

\* C3: tasks are popped in the order they were pushed: the pops made so far are
\* a prefix of the pushes, and the queue holds the rest in push order.
C3_Fifo ==
    /\ Len(popped) <= Len(pushed)
    /\ \A i \in 1..Len(popped) : popped[i] = pushed[i]
    /\ pushed = popped \o tasks

\* C3 witness: two tasks were queued together and both have been popped.
C3_Witness ==
    /\ Len(atStop) >= 2
    /\ Len(popped) >= 2
    /\ popped = pushed

\* C4: in a task_pool the queue never holds more than max_tasks tasks, and a
\* call stands at the push only while it holds the queue lock and the queue
\* holds fewer than max_tasks tasks.
C4_CapacityBound ==
    kind = "task_pool" =>
        /\ Len(tasks) <= max_tasks
        /\ \A c \in Calls :
             cpc[c] = "push" =>
                 queue_mutex = Caller(c) /\ Len(tasks) < max_tasks

\* C4 witness: the queue is full and an untimed submission is blocked.
C4_Witness ==
    /\ kind = "task_pool"
    /\ Len(tasks) = max_tasks
    /\ \E c \in Calls :
         cpc[c] = "blocked" /\ op[c] \in {"poll", "wait", "wait_to_enqueue"}

\* C5: a call of poll stands at the push only after its predicate() has been
\* evaluated to true during the call, with can_enqueue_unlocked() true and the
\* queue lock held; a poll whose predicate is false never admits its task.
C5_PollGated ==
    \A c \in Calls :
        (op[c] = "poll" /\ cpc[c] = "push") =>
            /\ woken[c] = "pred"
            /\ can_enqueue_unlocked
            /\ queue_mutex = Caller(c)

\* C6 as claimed: when a timed wait returns on the expiry of its deadline with
\* the combined condition false, the call goes on to push its task without a
\* further check.
C6_TimedAdmitsRegardless ==
    [][\A c \in Calls :
         (cpc[c] = "loop" /\ woken[c] = "timeout" /\ cpc'[c] # "loop")
            => cpc'[c] = "push"]_vars

\* C6 as amended: when a timed wait returns on the expiry of its deadline with
\* the combined condition false, the loop of task_pool::wait_to_enqueue checks
\* the capacity again: the task is pushed only if the queue holds fewer than
\* max_tasks tasks (though predicate() was false), otherwise the wait is entered
\* again; the queue never holds more than max_tasks tasks.
C6_TimedRechecksCapacity ==
    [][/\ kind = "task_pool" => Len(tasks') <= max_tasks
       /\ \A c \in Calls :
            (cpc[c] = "loop" /\ woken[c] = "timeout" /\ cpc'[c] # "loop")
               => /\ Len(tasks) < max_tasks => cpc'[c] = "push"
                  /\ Len(tasks) >= max_tasks => cpc'[c] = "policy"]_vars

\* C6 witness: a poll_for whose wait timed out with its predicate false stands
\* at the push, the queue having room.
C6_Witness ==
    \E c \in Calls :
        /\ op[c] = "poll_for" /\ cpc[c] = "push" /\ woken[c] = "timeout"
        /\ Len(tasks) < max_tasks

\* C7: a call of wait that is blocked while the queue holds fewer than
\* max_tasks tasks is eventually released and its task admitted.
C7_BlockedWaitAdmitted ==
    \A c \in Calls :
        (op[c] = "wait" /\ cpc[c] = "blocked" /\ can_enqueue_unlocked)
            ~> (cpc[c] \in {"push", "notify", "done"})

\* Tasks admitted and not yet completed: queued, or being run by a worker.
Outstanding == Len(tasks) + Cardinality(Running)

\* C8 as claimed: max_tasks = max(n, 1) = the number of workers, and the number
\* of outstanding tasks (queued plus executing) never exceeds max_tasks.
C8_OutstandingBound ==
    kind = "task_pool" =>
        /\ max_tasks = Max(n, 1)
        /\ Cardinality(workers) = max_tasks
        /\ Outstanding <= max_tasks

\* C8 as amended: max_tasks = max(n, 1) = the number of workers, and the number
\* of queued tasks never exceeds max_tasks; tasks being executed are not
\* counted, so up to max_tasks + (number of workers) tasks are outstanding; a
\* task is never admitted while the queue length has reached max_tasks.
C8_QueuedBound ==
    kind = "task_pool" =>
        /\ max_tasks = Max(n, 1)
        /\ Cardinality(workers) = max_tasks
        /\ Len(tasks) <= max_tasks
        /\ Outstanding <= max_tasks + Cardinality(workers)
        /\ \A c \in Calls : cpc[c] = "push" => Len(tasks) < max_tasks

\* C8 witness: a full queue while every worker is running a task.
C8_Witness ==
    /\ kind = "task_pool"
    /\ Len(tasks) = max_tasks
    /\ Outstanding = max_tasks + Cardinality(workers)

\* C9: the destructor sets the stop flag and returns only after every worker
\* has ended; every task that was queued when the flag was set has been run by
\* then; a worker leaves its loop only with the flag set and the queue empty.
C9_GracefulShutdown ==
    /\ dpc # "alive" => stopped
    /\ \A w \in workers : wpc[w] \in {"exit", "done"} => stopped /\ tasks = <<>>
    /\ dpc = "destroyed" =>
         /\ \A w \in workers : wpc[w] = "done"
         /\ tasks = <<>>
         /\ \A i \in 1..Len(atStop) :
              handle[atStop[i]] # "pending" /\ execCount[atStop[i]] = 1

\* C9 witness: the destructor has returned and two tasks were still queued when
\* it set the stop flag.
C9_Witness ==
    /\ dpc = "destroyed"
    /\ Len(atStop) >= 2

\* C10: when a worker finishes a task, whether the callable returned or raised
\* a failure, the outcome is stored in the task's handle and the worker is back
\* at the head of its loop; no worker ends before the stop flag is set.
C10_FailureContained ==
    [][/\ \A w \in workers :
            (wpc[w] = "run" /\ wpc'[w] # "run") =>
                /\ wpc'[w] = "lock"
                /\ handle'[cur[w]] \in {"value", "exception"}
                /\ counter' = counter => handle'[cur[w]] = "exception"
       /\ \A w \in workers :
            wpc'[w] \notin {"start", "lock", "check", "wait", "run"}
               => stopped']_vars

\* C10 witness: the only worker has run a task that failed and then one that
\* returned.
C10_Witness ==
    /\ Cardinality(workers) = 1
    /\ Len(popped) >= 2
    /\ handle[popped[1]] = "exception"
    /\ handle[popped[2]] = "value"

\* The part of C11 that is reset's own: reset returns, and only after every task
\* that was queued or being run when it was called has completed; when it
\* returns the queue is empty, the stop flag is unset and every worker is a
\* fresh thread at its start; a task admitted to the queue after a reset is
\* executed.
ResetDrainsAndRebuilds ==
    /\ []((rpc = "idle" /\ resets >= 1) =>
            \A t \in atReset : handle[t] # "pending" /\ execCount[t] = 1)
    /\ [][(rpc = "destroy" /\ rpc' = "idle") =>
             /\ \A t \in atReset : handle[t] # "pending"
             /\ tasks' = <<>> /\ queue_mutex' = Free
             /\ ~stopped' /\ dpc' = "alive"
             /\ \A w \in workers' : wpc'[w] = "start" /\ cur'[w] = 0]_vars
    /\ (rpc = "destroy") ~> (rpc = "idle" /\ dpc = "alive")
    /\ \A c \in Calls :
         (resets >= 1 /\ Queued(c)) ~> (handle[c] # "pending")

\* C11: reset returns only after every task that was queued or being run when
\* it was called has completed; after it returns the pool has fresh workers and
\* an empty queue; and every task submitted afterwards (here with wait) is
\* executed.
C11_ResetSafety ==
    /\ ResetDrainsAndRebuilds
    /\ \A c \in Calls :
         (resets >= 1 /\ cpc[c] = "lock") ~> (handle[c] # "pending")

\* C12: with max_tasks = 1, task 1 waiting for the gate and task 2 submitted
\* with wait: task 2 is not started while the gate is closed, and once the gate
\* has been opened task 2 is admitted, executed and completed (the wait call
\* returns and its handle resolves), whether or not the worker had popped
\* task 1 when wait was called.
C12_ScenarioB ==
    /\ [](gated = 1 =>
            /\ execCount[2] = 0 /\ handle[2] = "pending"
            /\ \A w \in workers : cur[w] # 2)
    /\ (cpc[2] # "idle" /\ gated = 0)
          ~> (cpc[2] = "done" /\ handle[2] # "pending" /\ execCount[2] = 1)

\* A nested submission that found the queue full and has not got past its wait,
\* in a pool with one worker.
Stuck(c) ==
    /\ c \in NestedCalls
    /\ Cardinality(workers) = 1
    /\ cpc[c] \in {"policy", "blocked", "relock"}

\* C13 as claimed: a submission made with wait or poll from inside a running
\* task that found the queue full never returns (it never gets to its push);
\* with one worker, from then on no task completes.
C13_NestedNeverReturns ==
    /\ [](\A c \in NestedCalls : cpc[c] = "push" => woken[c] = "no")
    /\ [][\A c \in NestedCalls :
             Stuck(c) => Stuck(c)' /\ handle' = handle]_vars

\* C13 as amended: such a submission gets to its push only when the queue
\* length has fallen below max_tasks, which needs another worker; with one
\* worker it never does: the queue stays full, the worker stays inside the
\* task, and from then on no task completes and no submission is admitted.
C13_SelfDeadlock ==
    /\ [](\A c \in NestedCalls :
            /\ (cpc[c] = "push" /\ woken[c] # "no") =>
                  Cardinality(workers) > 1 /\ Len(tasks) < max_tasks
            /\ Stuck(c) =>
                  /\ Len(tasks) = max_tasks
                  /\ \A w \in workers : wpc[w] = "run" /\ InNested(w))
    /\ [][\A c \in NestedCalls :
             Stuck(c) =>
                 /\ Stuck(c)'
                 /\ handle' = handle /\ tasks' = tasks
                 /\ pushed' = pushed /\ popped' = popped]_vars

\* C13 witness: the only worker runs task 1, task 2 fills the queue, and the
\* submission task 1 made is blocked; a client's call is blocked as well.
C13_Witness ==
    \E c \in NestedCalls :
        /\ Stuck(c) /\ cpc[c] = "blocked"
        /\ tasks # <<>>

\* C14: after the queue length has decreased (a submitter that blocked with the
\* queue full now finds room), enqueue_condition is notified: every blocked
\* submitter is released to evaluate its condition again.
C14_WakeDiscipline ==
    \A c \in Calls :
        (cpc[c] = "blocked" /\ Len(tasks) < max_tasks) ~> (cpc[c] = "relock")

\* C15: in thread_pool::wait_to_enqueue the wait policy runs, and returns, with
\* the queue mutex held by the caller; from the policy's return to the push the
\* queue is changed by nobody else and the push is the caller's own; the
\* notification is issued only after the push.
C15_LockProtocol ==
    /\ [](\A c \in Calls :
            /\ cpc[c] \in {"loop", "policy", "push"}
                  => queue_mutex = <<"call", c>>
            /\ cpc[c] = "notify" => \E i \in 1..Len(pushed) : pushed[i] = c
            /\ cpc[c] \in {"lock", "loop", "policy", "blocked", "relock",
                          "push"}
                  => \A i \in 1..Len(pushed) : pushed[i] # c)
    /\ [][\A c \in Calls :
             /\ cpc[c] = "push" =>
                   \/ cpc'[c] = "push" /\ tasks' = tasks
                   \/ cpc'[c] = "notify" /\ tasks' = Append(tasks, c)
             /\ (cpc[c] # "push" /\ cpc'[c] = "push") =>
                   queue_mutex' = <<"call", c>>
             /\ (wpc' # wpc /\ cpc'[c] = "done" /\ cpc[c] # "done") =>
                   cpc[c] = "notify"]_vars

\* C15 witness: in a thread_pool a caller's own waiter released the lock, was
\* woken, and has returned: the call stands at the push with the lock held.
C15_Witness ==
    \E c \in Calls :
        /\ kind = "thread_pool" /\ op[c] = "wait_to_enqueue"
        /\ cpc[c] = "push" /\ woken[c] = "wake"
        /\ tasks # <<>>

\* C16: no worker holds the queue mutex while it runs a task: a worker holds it
\* only between taking it and its decision, so while every worker is running a
\* task the mutex is free or held by a submitter.
C16_RunsOutsideLock ==
    /\ \A w \in workers : wpc[w] = "run" => queue_mutex # <<"worker", w>>
    /\ \A w \in workers : queue_mutex = <<"worker", w>> => wpc[w] = "check"
    /\ (\A w \in workers : wpc[w] = "run") => queue_mutex[1] # "worker"

\* C16 witness: every worker is running a task and a submitter holds the mutex
\* and is about to push.
C16_Witness ==
    /\ \A w \in workers : wpc[w] = "run"
    /\ \E c \in Calls : cpc[c] = "push" /\ queue_mutex = Caller(c)

\* C17 as claimed: the stop flag is false from construction, is set only by the
\* teardown under the queue lock, and once true never returns to false, over
\* any sequence of operations including reset.
C17_StopFlagMonotonic ==
    /\ [](dpc = "alive" /\ resets = 0 => ~stopped)
    /\ [][/\ stopped => stopped'
          /\ (~stopped /\ stopped') =>
                dpc = "alive" /\ dpc' = "stopping" /\ queue_mutex = Free]_vars

\* C17 as amended: the stop flag is false from construction until the teardown
\* begins and true from then on; it is set only by the teardown, with the mutex
\* free for it to take; it returns to false only when reset, after its
\* teardown has joined every worker, constructs the thread_pool anew.
C17_StopFlagPerLifetime ==
    /\ [](stopped <=> dpc # "alive")
    /\ [][/\ (~stopped /\ stopped') =>
                dpc = "alive" /\ dpc' = "stopping" /\ queue_mutex = Free
          /\ (stopped /\ ~stopped') =>
                /\ rpc = "destroy" /\ rpc' = "idle"
                /\ dpc = "destroyed" /\ dpc' = "alive"
                /\ \A w \in workers : wpc[w] = "done"
                /\ resets' = resets + 1]_vars

\* C17 witness: after a reset has returned, the destructor has set the flag of
\* the rebuilt pool and has returned.
C17_Witness ==
    /\ resets = 1 /\ rpc = "idle"
    /\ dpc = "destroyed" /\ stopped
    /\ Len(popped) >= 1

\* C18: max_tasks is max(n, 1) and the worker count is max(n, 1) in every
\* state, and no step changes max_tasks, the constructor argument or the set of
\* workers: not a submission, not a task, not a reset.
C18_ConfigPreserved ==
    /\ [](/\ kind = "task_pool" => max_tasks = Max(n, 1)
          /\ Cardinality(workers) = Max(n, 1)
          /\ DOMAIN wpc = workers)
    /\ [][max_tasks' = max_tasks /\ n' = n /\ workers' = workers]_vars

\* C18 witness: a task_pool built with n = 2 has run a task, has been reset,
\* and has two workers and max_tasks = 2 as before.
C18_Witness ==
    /\ kind = "task_pool" /\ n = 2
    /\ resets = 1 /\ rpc = "idle" /\ dpc = "alive"
    /\ Len(popped) >= 1 /\ atReset # {}
    /\ max_tasks = 2 /\ Cardinality(workers) = 2

\* C19: a worker leaves its start (on_enter) once and before it pops a task;
\* it begins to block only with the queue empty and the stop flag unset; it
\* leaves its loop only with the flag set and the queue empty; it ends only
\* from the place where it invokes on_exit, once, and stays ended; it is never
\* ended or ending while the queue holds a task.
C19_WorkerLifecycle ==
    /\ [](\A w \in workers :
            /\ wpc[w] \in {"exit", "done"} => stopped /\ tasks = <<>>
            /\ cur[w] # 0 => wpc[w] = "run")
    /\ [][\A w \in workers :
             /\ wpc'[w] = "start" => wpc[w] = "start"
             /\ (wpc[w] = "start" /\ wpc'[w] # "start") =>
                   wpc'[w] = "lock" /\ popped' = popped
             /\ cur'[w] \notin {0, cur[w]} => wpc[w] = "check"
             /\ (wpc[w] # "wait" /\ wpc'[w] = "wait") =>
                   tasks = <<>> /\ ~stopped
             /\ (wpc[w] # "exit" /\ wpc'[w] = "exit") =>
                   stopped /\ tasks = <<>>
             /\ (wpc[w] # "done" /\ wpc'[w] = "done") => wpc[w] = "exit"
             /\ wpc[w] = "exit" => wpc'[w] \in {"exit", "done"}
             /\ wpc[w] = "done" => wpc'[w] = "done"]_vars

\* C19 witness: two workers have ended, one of them after running a task.
C19_Witness ==
    /\ Cardinality(workers) = 2
    /\ \A w \in workers : wpc[w] = "done"
    /\ Len(popped) >= 1

\* C20: while the pool is running, the queue is never non-empty with every
\* worker blocked on the condition variable unless a notification is still to
\* be issued by a call that has pushed.
C20_NoLostWakeup ==
    (dpc = "alive" /\ tasks # <<>> /\ \A w \in workers : wpc[w] = "wait")
        => \E c \in Calls : cpc[c] = "notify"

\* C20 witness: two workers are blocked, a task is queued, and the call that
\* pushed it has not yet notified.
C20_Witness ==
    /\ Cardinality(workers) = 2
    /\ \A w \in workers : wpc[w] = "wait"
    /\ tasks # <<>>
    /\ \E c \in Calls : cpc[c] = "notify"

====
